---- MODULE Spec2Model ----
(***************************************************************************)
(* A model of garminconnect-tools (src/main.py): the Wahoo token           *)
(* lifecycle (get_wahoo_bearer and its helpers), the two paginated         *)
(* activity fetchers, the elevation-correction batch and the Wahoo ->      *)
(* Garmin import.  Every flow is sequential; each action is the code from  *)
(* one blocking call (an HTTP request, a prompt) to the next.              *)
(*                                                                         *)
(* Time is counted in seconds.  A Python dict is a function whose domain   *)
(* is the set of keys it holds, so "key in dict" is membership in DOMAIN   *)
(* and a missing key read raises KeyError.                                 *)
(***************************************************************************)
EXTENDS Integers, Sequences, FiniteSets, TLC

VARIABLES
    mode,           \* the flow being run (main's verb)
    pc,             \* position of the flow
    error,          \* kind of the exception that ended the flow, or "none"
    \* ---- Wahoo token lifecycle
    env,            \* which configuration values os.getenv finds
    fileExists,     \* whether the Wahoo token file exists
    tokenFile,      \* its content (a dict) when it exists
    file0,          \* history: existence and content of the file at start
    now,            \* the clock (datetime.now())
    loadNow,        \* history: the clock when the expiry check ran
    result,         \* the access token returned by get_wahoo_bearer
    requests,       \* history: grant types POSTed to the token endpoint
    writes,         \* history: records written to the token file
    entered,        \* history: helper functions entered in this run
    refreshStatus,  \* history: status of the refresh response, 0 if none
    \* ---- paginated fetchers
    garminProvider, \* the activities Garmin holds, newest first
    wahooProvider,  \* the workouts Wahoo holds
    ignore_workouts,\* get_all_wahoo_activities' flag
    garmin_page,    \* get_all_garmin_activities' page
    garmin_all,     \* get_all_garmin_activities' all_activities
    garminLog,      \* history: the get_activities calls made
    wahoo_page,     \* get_all_wahoo_activities' page
    wahoo_all,      \* get_all_wahoo_activities' all_activities
    wahooLog,       \* history: the workouts requests made
    \* ---- elevation correction
    elevation_corrected, \* the activities flagged elevationCorrected
    answer,         \* what the operator typed at the yes/no prompt
    elev_i,         \* index of the next activity to toggle
    toggleLog,      \* history: the toggle requests made, with their status
    \* ---- wahoo_import
    presented,      \* history: the missing activities listed to the operator
    import_activities, \* the activities to import
    skipInput,      \* history: what the operator typed at the skip prompt
    fit_files,      \* the paths handed to the upload loop
    tempDir,        \* the files written to the temporary directory
    dl_i,           \* index of the next activity of the download loop
    downloadLog,    \* history: the file requests made, with their outcome
    ul_i,           \* index of the next path of the upload loop
    uploadLog       \* history: the upload attempts made, with their outcome

bearerVars == <<env, fileExists, tokenFile, file0, now, loadNow, result,
                requests, writes, entered, refreshStatus>>

fetchVars == <<garminProvider, wahooProvider, ignore_workouts, garmin_page,
               garmin_all, garminLog, wahoo_page, wahoo_all, wahooLog>>

elevVars == <<elevation_corrected, answer, elev_i, toggleLog>>

importVars == <<presented, import_activities, skipInput, fit_files, tempDir,
                dl_i, downloadLog, ul_i, uploadLog>>

nonBearerVars == <<fetchVars, elevVars, importVars>>

nonFetchVars == <<bearerVars, elevVars, importVars>>

nonElevVars == <<bearerVars, fetchVars, importVars>>

nonImportVars == <<bearerVars, fetchVars, elevVars>>

vars == <<mode, pc, error, bearerVars, fetchVars, elevVars, importVars>>

----------------------------------------------------------------------------
\* Bounds of the model.
MaxNow == 2          \* the clock runs over 0..MaxNow
MaxGarminN == 41     \* most activities Garmin holds in a fetch
MaxWahooN == 201     \* most workouts Wahoo holds in a fetch
MaxElevActs == 3     \* most activities in an elevation-correction run
MaxImportActs == 3   \* most workouts Wahoo holds in an import run

\* Program constants.
ExpiryMarginSeconds == 300      \* timedelta(minutes=5)
DefaultExpiresIn == 7200        \* 3600 * 2
HttpOk == 200
GarminPageSize == 20            \* get_activities(start=page * 20, limit=20)
per_page == 100                 \* get_all_wahoo_activities

----------------------------------------------------------------------------
\* Python values.

\* dict restricted to the keys in ks
Dict(ks, full) == [k \in ks |-> full[k]]

EmptyDict == Dict({}, [x \in {} |-> 0])

\* Python truthiness of what load_wahoo_tokens returns: None and {} are falsy
Truthy(exists, tokens) == exists /\ DOMAIN tokens # {}

\* datetime.isoformat() / datetime.fromisoformat(): a timestamp string is kept
\* apart from the datetime it denotes
isoformat(t) == [iso |-> t]
fromisoformat(s) == s.iso

----------------------------------------------------------------------------
\* Token store

load_wahoo_tokens(exists, tokens) == IF ~exists THEN EmptyDict ELSE tokens

\* a save that is lost: the file keeps what it held
save_wahoo_tokens_lost(old, tokens) == old

save_wahoo_tokens(old, tokens) == tokens

\* the expiry check with the boundary excluded
is_wahoo_token_expired_strict(tokens, t) ==
    IF DOMAIN tokens = {} \/ "expires_at" \notin DOMAIN tokens
    THEN TRUE
    ELSE t + ExpiryMarginSeconds > fromisoformat(tokens["expires_at"])

is_wahoo_token_expired(tokens, t) ==
    IF DOMAIN tokens = {} \/ "expires_at" \notin DOMAIN tokens
    THEN TRUE
    ELSE t + ExpiryMarginSeconds >= fromisoformat(tokens["expires_at"])

\* refresh_wahoo_tokens' configuration check (client id and client secret)
RefreshConfigOk(e) == e.WAHOO_CLIENT_ID /\ e.WAHOO_CLIENT_SECRET

\* get_wahoo_code's configuration check (client id, redirect URI, scopes)
CodeConfigOk(e) == e.WAHOO_CLIENT_ID /\ e.WAHOO_REDIRECT_URI /\ e.WAHOO_SCOPES

\* the exchange's check forgetting the client secret
ExchangeConfigOk_noSecret(e) == e.WAHOO_REDIRECT_URI /\ e.WAHOO_CLIENT_ID

\* get_wahoo_bearer's configuration check before the authorization_code POST
ExchangeConfigOk(e) ==
    e.WAHOO_CLIENT_SECRET /\ e.WAHOO_REDIRECT_URI /\ e.WAHOO_CLIENT_ID

\* The record built from a 200 response of the token endpoint; reading
\* access_token or refresh_token from token_data raises KeyError when absent.
HasTokenKeys(token_data) ==
    {"access_token", "refresh_token"} \subseteq DOMAIN token_data

NewTokens(token_data, t) ==
    LET expires_in == IF "expires_in" \in DOMAIN token_data
                      THEN token_data["expires_in"] ELSE DefaultExpiresIn
    IN  [access_token  |-> token_data["access_token"],
         refresh_token |-> token_data["refresh_token"],
         expires_at    |-> isoformat(t + expires_in)]

----------------------------------------------------------------------------
\* Inputs of the token flows.
Envs == [WAHOO_CLIENT_ID : BOOLEAN, WAHOO_CLIENT_SECRET : BOOLEAN,
         WAHOO_REDIRECT_URI : BOOLEAN, WAHOO_SCOPES : BOOLEAN]

StoredExpiries ==
    (ExpiryMarginSeconds - 1) .. (ExpiryMarginSeconds + MaxNow + 1)

\* What the token file can hold at start: a record this program wrote, or a
\* record with fewer fields (the code tests for "expires_at" and
\* "refresh_token" itself), or the empty object.
StoredRecords ==
    {EmptyDict} \cup
    { Dict(ks, [access_token |-> "A0", refresh_token |-> "R0",
                expires_at |-> isoformat(e)]) :
        ks \in { {"access_token"} \cup o :
                    o \in SUBSET {"refresh_token", "expires_at"} },
        e \in StoredExpiries }

Statuses == {200, 201, 401}

\* the token flow has not run
BearerIdle ==
    /\ env = [WAHOO_CLIENT_ID |-> TRUE, WAHOO_CLIENT_SECRET |-> TRUE,
              WAHOO_REDIRECT_URI |-> TRUE, WAHOO_SCOPES |-> TRUE]
    /\ fileExists = FALSE
    /\ tokenFile = EmptyDict
    /\ file0 = [exists |-> FALSE, content |-> EmptyDict]
    /\ now = 0
    /\ loadNow = 0
    /\ result = "none"
    /\ requests = <<>>
    /\ writes = <<>>
    /\ entered = {}
    /\ refreshStatus = 0

\* the fetchers have not run and the providers hold nothing
FetchIdle ==
    /\ garminProvider = <<>>
    /\ wahooProvider = <<>>
    /\ ignore_workouts = FALSE
    /\ garmin_page = 0
    /\ garmin_all = <<>>
    /\ garminLog = <<>>
    /\ wahoo_page = 1
    /\ wahoo_all = <<>>
    /\ wahooLog = <<>>

\* the elevation correction has not run
ElevIdle ==
    /\ elevation_corrected = <<>>
    /\ answer = "unasked"
    /\ elev_i = 1
    /\ toggleLog = <<>>

\* the import has not run
ImportIdle ==
    /\ presented = <<>>
    /\ import_activities = <<>>
    /\ skipInput = <<>>
    /\ fit_files = <<>>
    /\ tempDir = EmptyDict
    /\ dl_i = 1
    /\ downloadLog = <<>>
    /\ ul_i = 1
    /\ uploadLog = <<>>

\* JSON bodies of a 200 response of the token endpoint
TokenBodies ==
    { Dict(ks, [access_token |-> "A1", refresh_token |-> "R1",
                expires_in |-> x]) :
        ks \in SUBSET {"access_token", "refresh_token", "expires_in"},
        x \in {1, 600} }

Terminal == {"returned", "raised"}

----------------------------------------------------------------------------
\* get_wahoo_bearer

Raise(kind) == pc' = "raised" /\ error' = kind

Return(token) == pc' = "returned" /\ result' = token /\ error' = error

\* lines 105-113 and refresh_wahoo_tokens up to its POST
BearerLoad ==
    /\ pc = "start"
    /\ mode = "getWahooBearer"
    /\ loadNow' = now
    /\ LET tokens == load_wahoo_tokens(fileExists, tokenFile)
           truthy == Truthy(fileExists, tokenFile)
       IN  IF truthy /\ ~is_wahoo_token_expired(tokens, now)
           THEN /\ Return(tokens["access_token"])
                /\ UNCHANGED <<requests, entered>>
           ELSE IF truthy /\ "refresh_token" \in DOMAIN tokens
           THEN /\ entered' = entered \cup {"refresh_wahoo_tokens"}
                /\ IF ~RefreshConfigOk(env)
                   THEN Raise("config") /\ UNCHANGED <<requests, result>>
                   ELSE /\ requests' = Append(requests, "refresh_token")
                        /\ pc' = "refresh_wait"
                        /\ UNCHANGED <<error, result>>
           ELSE /\ pc' = "get_wahoo_code"
                /\ UNCHANGED <<requests, entered, error, result>>
    /\ UNCHANGED nonBearerVars
    /\ UNCHANGED <<mode, env, fileExists, tokenFile, file0, now, writes,
                   refreshStatus>>

\* How a token request ends: the status check, then the reads of token_data
TokenOutcome(status, token_data) ==
    IF status # HttpOk THEN "http"
    ELSE IF ~HasTokenKeys(token_data) THEN "key"
    ELSE "ok"

\* the save of a freshly built record
SaveNew(tokens) ==
    /\ tokenFile' = save_wahoo_tokens(tokenFile, tokens)
    /\ fileExists' = TRUE
    /\ writes' = Append(writes, tokens)

\* refresh_wahoo_tokens from the response on (lines 66-83), then lines 114-118
RefreshResponse(status, token_data) ==
    /\ pc = "refresh_wait"
    /\ refreshStatus' = status
    /\ IF TokenOutcome(status, token_data) # "ok"
       THEN /\ Raise(TokenOutcome(status, token_data))
            /\ UNCHANGED <<fileExists, tokenFile, writes, result>>
       ELSE LET new_tokens == NewTokens(token_data, now)
            IN  /\ SaveNew(new_tokens)
                /\ IF DOMAIN new_tokens # {}
                   THEN Return(new_tokens["access_token"])
                   ELSE pc' = "get_wahoo_code" /\ UNCHANGED <<error, result>>
    /\ UNCHANGED nonBearerVars
    /\ UNCHANGED <<mode, env, file0, now, loadNow, requests, entered>>

\* get_wahoo_code and lines 122-131: the prompt, then the POST
GetWahooCode ==
    /\ pc = "get_wahoo_code"
    /\ IF ~CodeConfigOk(env)
       THEN /\ Raise("config")
            /\ entered' = entered \cup {"get_wahoo_code"}
            /\ UNCHANGED requests
       ELSE IF ~ExchangeConfigOk(env)
       THEN /\ Raise("config")
            /\ entered' = entered \cup {"get_wahoo_code", "prompt"}
            /\ UNCHANGED requests
       ELSE /\ entered' = entered \cup {"get_wahoo_code", "prompt"}
            /\ requests' = Append(requests, "authorization_code")
            /\ pc' = "exchange_wait"
            /\ UNCHANGED error
    /\ UNCHANGED nonBearerVars
    /\ UNCHANGED <<mode, env, fileExists, tokenFile, file0, now, loadNow,
                   result, writes, refreshStatus>>

\* lines 133-148
ExchangeResponse(status, token_data) ==
    /\ pc = "exchange_wait"
    /\ IF TokenOutcome(status, token_data) # "ok"
       THEN /\ Raise(TokenOutcome(status, token_data))
            /\ UNCHANGED <<fileExists, tokenFile, writes, result>>
       ELSE LET tokens == NewTokens(token_data, now)
            IN  /\ SaveNew(tokens)
                /\ Return(tokens["access_token"])
    /\ UNCHANGED nonBearerVars
    /\ UNCHANGED <<mode, env, file0, now, loadNow, requests, entered,
                   refreshStatus>>

\* the clock advances while the flow runs
Tick ==
    /\ mode = "getWahooBearer"
    /\ pc \notin Terminal
    /\ now < MaxNow
    /\ now' = now + 1
    /\ UNCHANGED nonBearerVars
    /\ UNCHANGED <<mode, pc, error, env, fileExists, tokenFile, file0,
                   loadNow, result, requests, writes, entered, refreshStatus>>

InitBearer ==
    /\ mode = "getWahooBearer"
    /\ pc = "start"
    /\ error = "none"
    /\ env \in Envs
    /\ fileExists \in BOOLEAN
    /\ tokenFile \in (IF fileExists THEN StoredRecords ELSE {EmptyDict})
    /\ file0 = [exists |-> fileExists, content |-> tokenFile]
    /\ now = 0
    /\ loadNow = 0
    /\ result = "none"
    /\ requests = <<>>
    /\ writes = <<>>
    /\ entered = {}
    /\ refreshStatus = 0
    /\ FetchIdle
    /\ ElevIdle
    /\ ImportIdle

NextBearer ==
    \/ BearerLoad
    \/ \E s \in Statuses, b \in TokenBodies : RefreshResponse(s, b)
    \/ GetWahooCode
    \/ \E s \in Statuses, b \in TokenBodies : ExchangeResponse(s, b)
    \/ Tick

SpecBearer == InitBearer /\ [][NextBearer]_vars

----------------------------------------------------------------------------
\* Activities.  A JSON null is the empty tuple and a present value v is <<v>>;
\* a timestamp string is the tuple of its parts.

None == <<>>
Some(v) == <<v>>

GmtString(date, time) == <<date, " ", time>>

GarminActivity(i, gmt, corrected) ==
    [activityId |-> i, startTimeGMT |-> gmt, elevationCorrected |-> corrected]

\* a Wahoo workout; summary is None (a planned workout) or Some of a
\* workout_summary whose file is None or Some([url |-> ...])
WahooWorkout(i, starts, summary) ==
    [id |-> i, starts |-> starts, workout_summary |-> summary]

Min(a, b) == IF a <= b THEN a ELSE b

\* garmin.get_activities(start, limit): the page of the provider's list
get_activities(provider, start, limit) ==
    SubSeq(provider, start + 1, Min(start + limit, Len(provider)))

\* GET /v1/workouts?page=&per_page=: response.json()["workouts"]
workouts(provider, p, n) ==
    SubSeq(provider, (p - 1) * n + 1, Min(p * n, Len(provider)))

\* [a for a in xs if a["workout_summary"] is not None]
HasSummary(a) == a.workout_summary # None

WithSummary(xs) == SelectSeq(xs, HasSummary)

\* where main goes once a fetcher has returned
AfterGarminFetch ==
    CASE mode = "getGarminActivities" -> "done"
      [] mode = "elevationCorrection" -> "elevation"
      [] mode = "wahooImport" -> "wahoo_fetch"

AfterWahooFetch ==
    CASE mode = "getWahooActivities" -> "done"
      [] mode = "wahooImport" -> "reconcile"

\* the loop test of get_all_garmin_activities with the break lost on a
\* page that is exactly full
GarminLastPage_off(activities) == Len(activities) <= GarminPageSize

\* len(activities) < 20
GarminLastPage(activities) == Len(activities) < GarminPageSize

\* one turn of get_all_garmin_activities' loop (lines 235-245)
GarminPage ==
    /\ pc = "garmin_fetch"
    /\ LET start == garmin_page * GarminPageSize
           activities == get_activities(garminProvider, start, GarminPageSize)
       IN  /\ garminLog' = Append(garminLog,
                                  [start |-> start, limit |-> GarminPageSize])
           /\ garmin_all' = garmin_all \o activities
           /\ IF GarminLastPage(activities)
              THEN pc' = AfterGarminFetch /\ UNCHANGED garmin_page
              ELSE garmin_page' = garmin_page + 1 /\ UNCHANGED pc
    /\ UNCHANGED <<mode, error, garminProvider, wahooProvider,
                   ignore_workouts, wahoo_page, wahoo_all, wahooLog>>
    /\ UNCHANGED nonFetchVars

\* lines 263-267
WahooKept(ws, ignore) == IF ignore THEN WithSummary(ws) ELSE ws

\* one turn of get_all_wahoo_activities' loop (lines 258-271)
WahooPage ==
    /\ pc = "wahoo_fetch"
    /\ LET ws == workouts(wahooProvider, wahoo_page, per_page)
       IN  /\ wahooLog' = Append(wahooLog,
                                 [page |-> wahoo_page, per_page |-> per_page])
           /\ wahoo_all' = wahoo_all \o WahooKept(ws, ignore_workouts)
           /\ IF Len(ws) < per_page
              THEN pc' = AfterWahooFetch /\ UNCHANGED wahoo_page
              ELSE wahoo_page' = wahoo_page + 1 /\ UNCHANGED pc
    /\ UNCHANGED <<mode, error, garminProvider, wahooProvider,
                   ignore_workouts, garmin_page, garmin_all, garminLog>>
    /\ UNCHANGED nonFetchVars

\* Providers of the fetch flows: n activities, numbered 1..n.
GarminHolding(n) ==
    [i \in 1..n |->
        GarminActivity(i, GmtString(20240301, 143000), FALSE)]

\* every stride-th workout is a planned one, without a summary (stride 0:
\* none is)
PlannedStrides == {0, 7}

WahooHolding(n, stride) ==
    [i \in 1..n |->
        WahooWorkout(i, <<20240301, "T", 143000, ".000Z">>,
                     IF stride > 0 /\ i % stride = 0
                     THEN None ELSE Some([file |-> None]))]

InitFetch ==
    /\ mode \in {"getGarminActivities", "getWahooActivities"}
    /\ error = "none"
    /\ BearerIdle
    /\ ElevIdle
    /\ ImportIdle
    /\ garmin_page = 0
    /\ garmin_all = <<>>
    /\ garminLog = <<>>
    /\ wahoo_page = 1
    /\ wahoo_all = <<>>
    /\ wahooLog = <<>>
    /\ IF mode = "getGarminActivities"
       THEN /\ pc = "garmin_fetch"
            /\ garminProvider \in {GarminHolding(n) : n \in 0..MaxGarminN}
            /\ wahooProvider = <<>>
            /\ ignore_workouts = FALSE
       ELSE /\ pc = "wahoo_fetch"
            /\ garminProvider = <<>>
            /\ wahooProvider \in {WahooHolding(n, k) :
                                     n \in 0..MaxWahooN, k \in PlannedStrides}
            /\ ignore_workouts \in BOOLEAN

NextFetch == GarminPage \/ WahooPage

SpecFetch == InitFetch /\ [][NextFetch]_vars

----------------------------------------------------------------------------
\* garmin_elevation_correction, after main's fetch of all activities

\* user_input.strip().lower() on the answers the operator may type
StripLower ==
    [a \in {"y", " Y ", "n", "", "yes"} |->
        CASE a = "y" -> "y"
          [] a = " Y " -> "y"
          [] a = "n" -> "n"
          [] a = "" -> ""
          [] a = "yes" -> "yes"]

Answers == DOMAIN StripLower

yesno(user_input) == StripLower[user_input] = "y"

IsElevationCorrected(x) == x.elevationCorrected = TRUE

\* response.status_code < 200 or response.status_code > 299
ToggleFailed(status) == status < 200 \/ status > 299

ToggleStatuses == {199, 200, 299, 300, 500}

\* a loop that only skips a failed toggle and goes on to the next activity
ToggleLoopEnds_skip(status, i, n) == i = n

\* whether the toggle loop ends after activity i of n: the break, or the
\* end of the list
ToggleLoopEnds(status, i, n) == ToggleFailed(status) \/ i = n

\* lines 155-163: the filter, the early return, the listing
ElevationList ==
    /\ pc = "elevation"
    /\ elevation_corrected' = SelectSeq(garmin_all, IsElevationCorrected)
    /\ pc' = IF Len(elevation_corrected') = 0 THEN "done" ELSE "confirm"
    /\ UNCHANGED <<mode, error, answer, elev_i, toggleLog>>
    /\ UNCHANGED nonElevVars

\* lines 165-166: the confirmation
ElevationConfirm(user_input) ==
    /\ pc = "confirm"
    /\ answer' = user_input
    /\ pc' = IF yesno(user_input) THEN "toggle" ELSE "done"
    /\ UNCHANGED <<mode, error, elevation_corrected, elev_i, toggleLog>>
    /\ UNCHANGED nonElevVars

\* one turn of the toggle loop (lines 168-177)
Toggle(status) ==
    /\ pc = "toggle"
    /\ LET act == elevation_corrected[elev_i]
       IN  toggleLog' = Append(toggleLog,
                               [activityId |-> act.activityId,
                                status |-> status])
    /\ IF ToggleLoopEnds(status, elev_i, Len(elevation_corrected))
       THEN pc' = "done" /\ UNCHANGED elev_i
       ELSE elev_i' = elev_i + 1 /\ UNCHANGED pc
    /\ UNCHANGED <<mode, error, elevation_corrected, answer>>
    /\ UNCHANGED nonElevVars

\* the lists of n activities, numbered 1..n, with every choice of flags
ElevProviders ==
    UNION { [1..n -> BOOLEAN] : n \in 0..MaxElevActs }

InitElev ==
    /\ mode = "elevationCorrection"
    /\ pc = "garmin_fetch"
    /\ error = "none"
    /\ BearerIdle
    /\ ElevIdle
    /\ ImportIdle
    /\ \E flags \in ElevProviders :
           garminProvider =
               [i \in DOMAIN flags |->
                   GarminActivity(i, GmtString(20240301, i), flags[i])]
    /\ wahooProvider = <<>>
    /\ ignore_workouts = FALSE
    /\ garmin_page = 0
    /\ garmin_all = <<>>
    /\ garminLog = <<>>
    /\ wahoo_page = 1
    /\ wahoo_all = <<>>
    /\ wahooLog = <<>>

NextElev ==
    \/ GarminPage
    \/ ElevationList
    \/ \E a \in Answers : ElevationConfirm(a)
    \/ \E st \in ToggleStatuses : Toggle(st)

SpecElev == InitElev /\ [][NextElev]_vars

----------------------------------------------------------------------------
\* wahoo_import

\* datetime.strptime(gmt_time, "%Y-%m-%d %H:%M:%S")
strptime(gmt_time) == [date |-> gmt_time[1], time |-> gmt_time[3]]

\* datetime.isoformat() of a datetime without microseconds
dt_isoformat(dt) == <<dt.date, "T", dt.time>>

\* a normalisation that forgets the suffix
gmt_to_rfc3339_bare(gmt_time) == dt_isoformat(strptime(gmt_time))

gmt_to_rfc3339(gmt_time) == dt_isoformat(strptime(gmt_time)) \o <<".000Z">>

\* the keys a loop "for x in xs: d[key(x)] = ..." assigns, in order
ActivityIds(xs) == [i \in 1..Len(xs) |-> xs[i].activityId]

Ids(xs) == [i \in 1..Len(xs) |-> xs[i].id]

\* the assignment that stays in the dict: a key assigned twice keeps the
\* last value
LastIndex(keys, k) ==
    CHOOSE i \in 1..Len(keys) :
        keys[i] = k /\ \A j \in (i + 1)..Len(keys) : keys[j] # k

\* lines 285-287
id_time_garmin_of(garmin_activities) ==
    LET keys == ActivityIds(garmin_activities)
    IN  [k \in {keys[i] : i \in 1..Len(keys)} |->
            gmt_to_rfc3339(
                garmin_activities[LastIndex(keys, k)].startTimeGMT)]

\* lines 289-291
id_time_wahoo_of(wahoo_activities) ==
    LET keys == Ids(wahoo_activities)
    IN  [k \in {keys[i] : i \in 1..Len(keys)} |->
            wahoo_activities[LastIndex(keys, k)].starts]

Values(d) == {d[k] : k \in DOMAIN d}

\* lines 293-294
MissingActivities(garmin_activities, wahoo_activities) ==
    LET id_time_garmin == id_time_garmin_of(garmin_activities)
        id_time_wahoo == id_time_wahoo_of(wahoo_activities)
        import_ids == {k \in DOMAIN id_time_wahoo :
                          id_time_wahoo[k] \notin Values(id_time_garmin)}
        wanted(activity) == activity.id \in import_ids
    IN  SelectSeq(wahoo_activities, wanted)

\* lines 282-302, after the two fetches
Reconcile ==
    /\ pc = "reconcile"
    /\ import_activities' = MissingActivities(garmin_all, wahoo_all)
    /\ presented' = import_activities'
    /\ pc' = IF Len(import_activities') = 0 THEN "done" ELSE "skip_prompt"
    /\ UNCHANGED <<mode, error, skipInput, fit_files, tempDir, dl_i,
                   downloadLog, ul_i, uploadLog>>
    /\ UNCHANGED nonImportVars

\* What the operator types at the skip prompt, as the pieces between its
\* commas; str.strip() and int() on those pieces.
Strip ==
    [t \in {"", "101", "102", " 103", "x"} |->
        CASE t = "" -> ""
          [] t = "101" -> "101"
          [] t = "102" -> "102"
          [] t = " 103" -> "103"
          [] t = "x" -> "x"]

IsInt(t) == t \in {"101", "102", "103"}

IntOf(t) == CASE t = "101" -> 101 [] t = "102" -> 102 [] t = "103" -> 103

SkipInputs == { <<"">>, <<"102">>, <<"101", " 103">>, <<"102", "">>, <<"x">> }

\* skip == "" after the strip of the whole line
IsEmptyLine(line) == Len(line) = 1 /\ Strip[line[1]] = ""

\* int(id.strip()) raises ValueError on a piece that is no number
ParsesAsInts(line) == \A i \in 1..Len(line) : IsInt(Strip[line[i]])

SkipIds(line) == {IntOf(Strip[line[i]]) : i \in 1..Len(line)}

\* a filter that keeps the ids to skip and drops the others
SkipFilter_inverted(activities, skip) ==
    LET kept(activity) == activity.id \in skip
    IN  SelectSeq(activities, kept)

\* line 309
SkipFilter(activities, skip) ==
    LET kept(activity) == activity.id \notin skip
    IN  SelectSeq(activities, kept)

\* lines 304-314
SkipPrompt(line) ==
    /\ pc = "skip_prompt"
    /\ skipInput' = line
    /\ IF IsEmptyLine(line)
       THEN /\ pc' = "download"
            /\ UNCHANGED <<import_activities, error>>
       ELSE IF ~ParsesAsInts(line)
       THEN Raise("ValueError") /\ UNCHANGED import_activities
       ELSE /\ import_activities' =
                   SkipFilter(import_activities, SkipIds(line))
            /\ pc' = IF Len(import_activities') = 0 THEN "done"
                     ELSE "download"
            /\ UNCHANGED error
    /\ UNCHANGED <<mode, presented, fit_files, tempDir, dl_i, downloadLog,
                   ul_i, uploadLog>>
    /\ UNCHANGED nonImportVars

\* line 317
LacksFile(activity) ==
    \/ activity.workout_summary = None
    \/ activity.workout_summary[1].file = None

\* re.sub(r".*\/", "", fit_url): the URL's last path segment
fit_filename_of(fit_url) == fit_url[Len(fit_url)]

\* os.path.join(temp_dir, fit_filename)
PathOf(fit_filename) == <<"tmp", fit_filename>>

\* where the flow goes after activity i of the download loop
AfterDownload(i, files) ==
    IF i < Len(import_activities) THEN "download"
    ELSE IF Len(files) = 0 THEN "done" ELSE "upload"

\* lines 316-319: an activity without a file is skipped
DownloadSkip ==
    /\ pc = "download"
    /\ LacksFile(import_activities[dl_i])
    /\ pc' = AfterDownload(dl_i, fit_files)
    /\ dl_i' = dl_i + 1
    /\ UNCHANGED <<mode, error, presented, import_activities, skipInput,
                   fit_files, tempDir, downloadLog, ul_i, uploadLog>>
    /\ UNCHANGED nonImportVars

\* What requests.get(fit_url) does: it raises (no connection), or returns a
\* response of any status, whose content is then written without a look at
\* the status.
DownloadReplies ==
    { [raised |-> FALSE, status |-> 200],
      [raised |-> FALSE, status |-> 404],
      [raised |-> TRUE, status |-> 0] }

\* lines 321-331: the download of one activity's file
Download(reply) ==
    /\ pc = "download"
    /\ ~LacksFile(import_activities[dl_i])
    /\ LET activity == import_activities[dl_i]
           fit_url == activity.workout_summary[1].file[1].url
           path == PathOf(fit_filename_of(fit_url))
           entry == [id |-> activity.id, path |-> path, reply |-> reply]
       IN  /\ downloadLog' = Append(downloadLog, entry)
           /\ IF reply.raised
              THEN /\ Raise("ConnectionError")
                   /\ UNCHANGED <<fit_files, tempDir, dl_i>>
              ELSE /\ fit_files' = Append(fit_files, path)
                   /\ tempDir' =
                          [q \in DOMAIN tempDir \cup {path} |->
                              IF q = path
                              THEN [url |-> fit_url, status |-> reply.status]
                              ELSE tempDir[q]]
                   /\ pc' = AfterDownload(dl_i, fit_files')
                   /\ dl_i' = dl_i + 1
                   /\ UNCHANGED error
    /\ UNCHANGED <<mode, presented, import_activities, skipInput, ul_i,
                   uploadLog>>
    /\ UNCHANGED nonImportVars

\* an upload loop that gives up at the first failed upload
UploadLoopEnds_abort(raised, i, n) == raised \/ i = n

\* whether the upload loop ends after path i of n: a failed upload is caught
\* and the loop goes on
UploadLoopEnds(raised, i, n) == i = n

\* one turn of the upload loop (lines 333-341)
Upload(raised) ==
    /\ pc = "upload"
    /\ uploadLog' = Append(uploadLog,
                           [path |-> fit_files[ul_i], raised |-> raised])
    /\ IF UploadLoopEnds(raised, ul_i, Len(fit_files))
       THEN pc' = "done" /\ UNCHANGED ul_i
       ELSE ul_i' = ul_i + 1 /\ UNCHANGED pc
    /\ UNCHANGED <<mode, error, presented, import_activities, skipInput,
                   fit_files, tempDir, dl_i, downloadLog>>
    /\ UNCHANGED nonImportVars

\* Providers of the import flow.  Garmin holds activities started at times
\* 1 and 2; a Wahoo workout started at time 1 or 3 is a planned workout, a
\* workout without a file or a workout with a file, and one more kind started
\* at time 2 and half a second.  Wahoo names each workout's file after the
\* workout, so no two URLs end in the same segment.
GarminImportLists ==
    { [i \in 1..n |-> GarminActivity(i, GmtString(20240301, i), FALSE)] :
        n \in {0, 1, 2} }

FileUrl(i) == <<"https://cdn.wahooligan.com", "file", i>>

WahooKinds ==
    { [time |-> t, frac |-> ".000Z", summary |-> k] :
        t \in {1, 3}, k \in {"planned", "nofile", "file"} }
    \cup { [time |-> 2, frac |-> ".500Z", summary |-> "file"] }

WahooOfKind(i, kind) ==
    WahooWorkout(100 + i, <<20240301, "T", kind.time, kind.frac>>,
        CASE kind.summary = "planned" -> None
          [] kind.summary = "nofile" -> Some([file |-> None])
          [] kind.summary = "file" ->
                 Some([file |-> Some([url |-> FileUrl(100 + i)])]))

WahooImportLists ==
    UNION { { [i \in 1..n |-> WahooOfKind(i, kinds[i])] :
                kinds \in [1..n -> WahooKinds] } : n \in 0..MaxImportActs }

InitImport ==
    /\ mode = "wahooImport"
    /\ pc = "garmin_fetch"
    /\ error = "none"
    /\ BearerIdle
    /\ ElevIdle
    /\ ImportIdle
    /\ garminProvider \in GarminImportLists
    /\ wahooProvider \in WahooImportLists
    /\ ignore_workouts = TRUE
    /\ garmin_page = 0
    /\ garmin_all = <<>>
    /\ garminLog = <<>>
    /\ wahoo_page = 1
    /\ wahoo_all = <<>>
    /\ wahooLog = <<>>

NextImport ==
    \/ GarminPage
    \/ WahooPage
    \/ Reconcile
    \/ \E line \in SkipInputs : SkipPrompt(line)
    \/ DownloadSkip
    \/ \E reply \in DownloadReplies : Download(reply)
    \/ \E raised \in BOOLEAN : Upload(raised)

SpecImport == InitImport /\ [][NextImport]_vars

----------------------------------------------------------------------------
\* Properties of the token lifecycle (checked under SpecBearer).

AnyCredentialMissing ==
    ~env.WAHOO_CLIENT_ID \/ ~env.WAHOO_CLIENT_SECRET \/ ~env.WAHOO_REDIRECT_URI

\* C1: when the refresh of an expired record fails with a non-success
\* response, get_wahoo_bearer goes on to get_wahoo_code (the interactive
\* exchange) instead of ending with an error.
C1_FallbackAfterFailedRefresh ==
    (refreshStatus >= 400 /\ pc \in Terminal)
        => "get_wahoo_code" \in entered

\* C2 as stated: with any one of client id, client secret or redirect URI
\* missing, no request reaches the token endpoint and an entry point that was
\* entered ends with a configuration error.
C2_AnyMissingNoRequest ==
    AnyCredentialMissing =>
        /\ requests = <<>>
        /\ (pc \in Terminal /\ entered # {}) =>
               (pc = "raised" /\ error = "config")

\* C2 amended: a refresh makes no request and ends with a configuration error
\* when the client id or the client secret is missing (the redirect URI is not
\* needed to refresh); the authorization-code exchange makes no
\* authorization_code request and ends with a configuration error when any
\* one of the three is missing.
C2_ConfigErrorBeforeRequest ==
    /\ (~env.WAHOO_CLIENT_ID \/ ~env.WAHOO_CLIENT_SECRET) =>
           /\ requests = <<>>
           /\ "refresh_wahoo_tokens" \in entered =>
                  (pc = "raised" /\ error = "config")
    /\ AnyCredentialMissing =>
           /\ \A i \in 1..Len(requests) : requests[i] # "authorization_code"
           /\ "get_wahoo_code" \in entered =>
                  (pc = "raised" /\ error = "config")

\* the exchange was reached with only the client secret missing: the operator
\* was prompted, and the flow ended with the configuration error
C2_Witness ==
    /\ env.WAHOO_CLIENT_ID /\ env.WAHOO_REDIRECT_URI /\ env.WAHOO_SCOPES
    /\ ~env.WAHOO_CLIENT_SECRET
    /\ "prompt" \in entered
    /\ pc = "raised" /\ error = "config" /\ requests = <<>>

TokenFields == {"access_token", "refresh_token", "expires_at"}

\* C3: every record written to the token file has access_token, refresh_token
\* and expires_at; when a refresh or exchange returns the access token the
\* file already holds the new record; when the flow fails the file is as it
\* was at start.
C3_PersistedOnSuccess ==
    /\ \A i \in 1..Len(writes) : DOMAIN writes[i] = TokenFields
    /\ (pc = "returned" /\ requests # <<>>) =>
           /\ fileExists
           /\ writes # <<>>
           /\ tokenFile = writes[Len(writes)]
           /\ tokenFile["access_token"] = result
    /\ pc = "raised" =>
           /\ writes = <<>>
           /\ fileExists = file0.exists
           /\ tokenFile = file0.content

\* a refresh succeeded over a stored record and returned the new token
C3_Witness ==
    /\ pc = "returned"
    /\ requests = <<"refresh_token">>
    /\ file0.exists /\ file0.content # tokenFile
    /\ result = "A1"

\* the characterisation of the expiry check the claim gives
ExpiredAsClaimed(tokens, t) ==
    \/ DOMAIN tokens = {}
    \/ "expires_at" \notin DOMAIN tokens
    \/ tokens["expires_at"].iso <= t + ExpiryMarginSeconds

\* C4: is_wahoo_token_expired is true for an empty record, a record without
\* expires_at, and expires_at <= now + 5 minutes, false otherwise; and
\* get_wahoo_bearer returns the stored access token without a token-endpoint
\* request exactly when the stored expires_at > now + 5 minutes.
C4_ExpiryCheck ==
    /\ \A t \in 0..MaxNow :
           is_wahoo_token_expired(tokenFile, t) = ExpiredAsClaimed(tokenFile, t)
    /\ pc # "start" =>
           ( (pc = "returned" /\ requests = <<>>)
               <=> (file0.exists /\ ~ExpiredAsClaimed(file0.content, loadNow)) )
    /\ (pc = "returned" /\ requests = <<>>) =>
           result = file0.content["access_token"]

\* the stored token was returned one second past the boundary, and at the
\* boundary itself it was not
C4_Witness ==
    /\ pc = "returned" /\ requests = <<>>
    /\ loadNow = 1
    /\ file0.content["expires_at"].iso = loadNow + ExpiryMarginSeconds + 1

----------------------------------------------------------------------------
\* Properties of the fetchers (checked under SpecFetch).

\* the requests a fetch of n items makes, as the claim gives them
GarminRequests(k) ==
    [i \in 1..k |-> [start |-> GarminPageSize * (i - 1),
                     limit |-> GarminPageSize]]

WahooRequests(k) == [i \in 1..k |-> [page |-> i, per_page |-> per_page]]

IsPrefix(a, b) == Len(a) <= Len(b) /\ a = SubSeq(b, 1, Len(a))

\* the part of the claim about the requests: pages in order, one more than
\* the number of full pages, none after the first short page
FetchRequestsAsClaimed ==
    LET gn == Len(garminProvider) \div GarminPageSize + 1
        wn == Len(wahooProvider) \div per_page + 1
    IN  /\ mode = "getGarminActivities" =>
               /\ IsPrefix(garminLog, GarminRequests(gn))
               /\ pc = "done" => garminLog = GarminRequests(gn)
        /\ mode = "getWahooActivities" =>
               /\ IsPrefix(wahooLog, WahooRequests(wn))
               /\ pc = "done" => wahooLog = WahooRequests(wn)

\* C6 as stated: both fetchers make floor(N/size)+1 page requests in order,
\* none after the first short page, and return all N items, none duplicated
\* or dropped.
C6_FetchAllAsStated ==
    /\ FetchRequestsAsClaimed
    /\ (mode = "getGarminActivities" /\ pc = "done") =>
           garmin_all = garminProvider
    /\ (mode = "getWahooActivities" /\ pc = "done") =>
           wahoo_all = wahooProvider

\* C6 amended: as stated for the requests and for get_all_garmin_activities;
\* get_all_wahoo_activities returns all N items when ignore_workouts is off
\* and, when it is on, exactly the items that have a workout summary, in
\* order.
C6_FetchAll ==
    /\ FetchRequestsAsClaimed
    /\ (mode = "getGarminActivities" /\ pc = "done") =>
           garmin_all = garminProvider
    /\ (mode = "getWahooActivities" /\ pc = "done") =>
           wahoo_all = IF ignore_workouts THEN WithSummary(wahooProvider)
                       ELSE wahooProvider

\* a Wahoo fetch of exactly two full pages with ignore_workouts on ended
\* after a third, empty page and returned the workouts that have a summary
C6_Witness ==
    /\ mode = "getWahooActivities"
    /\ pc = "done"
    /\ ignore_workouts
    /\ Len(wahooProvider) = 2 * per_page
    /\ Len(wahooLog) = 3
    /\ Len(wahoo_all) > per_page
    /\ Len(wahoo_all) < Len(wahooProvider)

----------------------------------------------------------------------------
\* Properties of the elevation correction (checked under SpecElev).

\* C7: toggle requests go out one per elevation-corrected activity, in list
\* order, only after the operator confirmed; a non-2xx status ends the run:
\* if the k-th toggle fails exactly k requests were made.
C7_FailFastToggle ==
    LET flagged == SelectSeq(garmin_all, IsElevationCorrected)
        n == Len(toggleLog)
    IN  /\ IsPrefix(ActivityIds(toggleLog), ActivityIds(flagged))
        /\ n > 0 => (answer # "unasked" /\ StripLower[answer] = "y")
        /\ \A k \in 1..n :
               (toggleLog[k].status < 200 \/ toggleLog[k].status > 299)
                   => (k = n /\ pc = "done")
        /\ (pc = "done" /\ n > 0
              /\ toggleLog[n].status >= 200 /\ toggleLog[n].status <= 299)
               => n = Len(flagged)

\* three flagged activities, the second toggle failed, the run is over
C7_Witness ==
    /\ pc = "done"
    /\ Len(elevation_corrected) = 3
    /\ Len(toggleLog) = 2
    /\ toggleLog[1].status = 200
    /\ toggleLog[2].status = 500

----------------------------------------------------------------------------
\* Properties of the import (checked under SpecImport).

\* the normalised start of a Garmin activity as the specification words it:
\* the date and time of "%Y-%m-%d %H:%M:%S", a "T" between, ".000Z" appended
NormalisedStart(g) ==
    <<g.startTimeGMT[1], "T", g.startTimeGMT[3], ".000Z">>

Unmatched(w) ==
    \A i \in 1..Len(garmin_all) : w.starts # NormalisedStart(garmin_all[i])

Reconciled == pc \notin {"garmin_fetch", "wahoo_fetch", "reconcile"}

\* C5: the missing list shown to the operator is exactly the fetched Wahoo
\* activities whose start string equals the normalised start of no Garmin
\* activity.
C5_MissingSet ==
    Reconciled => presented = SelectSeq(wahoo_all, Unmatched)

\* Garmin holds the activities at times 1 and 2; of three Wahoo workouts one
\* matches time 1 and two do not (one of them half a second off time 2)
C5_Witness ==
    /\ Reconciled
    /\ Len(garmin_all) = 2
    /\ Len(wahoo_all) = 3
    /\ Len(presented) = 2
    /\ \E i \in 1..3 : wahoo_all[i].starts = <<20240301, "T", 1, ".000Z">>
    /\ \E i \in 1..2 : presented[i].starts = <<20240301, "T", 2, ".500Z">>

Paths(log) == [i \in 1..Len(log) |-> log[i].path]

\* C8: every path of fit_files gets exactly one upload attempt, in order,
\* whichever earlier uploads failed, and the flow then ends normally.
C8_UploadEveryFile ==
    /\ IsPrefix(Paths(uploadLog), fit_files)
    /\ uploadLog # <<>> =>
           /\ pc \in {"upload", "done"}
           /\ error = "none"
           /\ pc = "done" => Paths(uploadLog) = fit_files
    /\ (pc = "done" /\ downloadLog # <<>>) => Paths(uploadLog) = fit_files

\* three files, the second upload failed, the third was still attempted
C8_Witness ==
    /\ pc = "done"
    /\ Len(fit_files) = 3
    /\ Len(uploadLog) = 3
    /\ ~uploadLog[1].raised /\ uploadLog[2].raised /\ ~uploadLog[3].raised

DownloadFailed(entry) == entry.reply.raised \/ entry.reply.status # 200

\* C9: a failed download of one activity's file skips that activity only:
\* the flow does not end there and the failed item's path never reaches the
\* upload loop.
C9_DownloadFailureSkips ==
    \A i \in 1..Len(downloadLog) :
        DownloadFailed(downloadLog[i]) =>
            /\ pc # "raised"
            /\ \A j \in 1..Len(fit_files) :
                   fit_files[j] # downloadLog[i].path

\* the activities the claim says are imported: the missing ones, less the
\* excluded ids, that have a file
HasFile(a) == ~LacksFile(a)

ToImportAsClaimed ==
    LET excluded == IF IsEmptyLine(skipInput) THEN {} ELSE SkipIds(skipInput)
        wanted(a) == a.id \notin excluded /\ HasFile(a)
    IN  SelectSeq(presented, wanted)

PathsOfActivities(xs) ==
    [i \in 1..Len(xs) |->
        PathOf(fit_filename_of(xs[i].workout_summary[1].file[1].url))]

\* C10: once the operator has answered, only missing activities that are
\* not excluded and have a file are downloaded and uploaded, in their order,
\* and when the import has run to its end they all have been; an excluded id
\* is never downloaded or uploaded; an empty input excludes nothing.
C10_ExclusionList ==
    LET answered == skipInput # <<>>
        wellFormed == IsEmptyLine(skipInput) \/ ParsesAsInts(skipInput)
    IN  /\ (answered /\ wellFormed) =>
               /\ IsPrefix(Ids(downloadLog), Ids(ToImportAsClaimed))
               /\ IsPrefix(Paths(uploadLog),
                           PathsOfActivities(ToImportAsClaimed))
               /\ pc = "done" =>
                      /\ Ids(downloadLog) = Ids(ToImportAsClaimed)
                      /\ Paths(uploadLog) =
                             PathsOfActivities(ToImportAsClaimed)
        /\ (answered /\ wellFormed /\ ~IsEmptyLine(skipInput)) =>
               /\ \A i \in 1..Len(downloadLog) :
                      downloadLog[i].id \notin SkipIds(skipInput)
               /\ \A i \in 1..Len(uploadLog) :
                      \A j \in 1..Len(presented) :
                          (presented[j].id \in SkipIds(skipInput)
                             /\ HasFile(presented[j]))
                          => uploadLog[i].path #
                                 PathsOfActivities(<<presented[j]>>)[1]
        /\ (answered /\ IsEmptyLine(skipInput)) =>
               import_activities = presented
        /\ (answered /\ ~wellFormed) =>
               (downloadLog = <<>> /\ uploadLog = <<>>)

\* 101, 102 and 103 were missing, the operator typed "102", and 101 and 103
\* were downloaded and uploaded
C10_Witness ==
    /\ pc = "done"
    /\ Ids(presented) = <<101, 102, 103>>
    /\ skipInput = <<"102">>
    /\ Ids(downloadLog) = <<101, 103>>
    /\ Len(uploadLog) = 2

====
